---- MODULE Spec2Model ----
(***************************************************************************)
(* A model of profile-analyze.py (Glulxe profiling analysis script).       *)
(*                                                                         *)
(* Three parts of the script are modelled, each under its own              *)
(* specification over the shared variables:                                *)
(*   Spec / FairSpec : DebugFile.__init__ decoding an Inform debug file    *)
(*                     byte by byte, followed by the construction of       *)
(*                     sourcemap from the decoded function table;          *)
(*   SpecAsm         : parse_asm scanning an assembly listing;             *)
(*   SpecProfile     : the profile-raw handler, source_start, the          *)
(*                     correlation loop and the final report.              *)
(***************************************************************************)
EXTENDS Integers, Sequences, FiniteSets, TLC

VARIABLES
    pc,             \* control location of the part being run
    sourcemap,      \* global sourcemap: None or a dict addr -> <<linenum, funcname>>
    err,            \* the exception that ended the run, "" if none
    \* ---- DebugFile ----
    recs,           \* the records the debug file was written from (history only)
    stream,         \* the bytes of the file object fl
    pos,            \* fl's read position (bytes consumed)
    self,           \* the DebugFile object under construction
    debugfile,      \* the DebugFile handed to the caller, or None
    recno,          \* number of records completely decoded
    \* ---- parse_asm ----
    lines,          \* the lines of the listing, each as fl.readline() returns it
    lineix,         \* number of lines read
    lasttup,        \* None or <<linenum, funcname, addr>>
    \* ---- profile ----
    trace,          \* the function elements of profile-raw, in document order
    traceix,        \* number of elements handled
    functions,      \* global functions: dict addr -> Function
    source_start,   \* None or the code segment start
    badls,          \* None or the list of unresolved addresses
    function_names, \* None or dict name -> addr of the Function
    keys,           \* the order in which the functions dict is iterated
    report          \* None or the sequence of Functions dumped

vars == <<pc, sourcemap, err, recs, stream, pos, self, debugfile, recno,
          lines, lineix, lasttup,
          trace, traceix, functions, source_start, badls, function_names, keys, report>>

dbgvars == <<recs, stream, pos, self, debugfile, recno>>
asmvars == <<lines, lineix, lasttup>>
profvars == <<trace, traceix, functions, source_start, badls, function_names, keys, report>>

(***************************************************************************)
(* Python values                                                           *)
(***************************************************************************)
\* None, and optional values: None is the empty tuple, a present value x is <<x>>
None == <<>>
Some(x) == <<x>>
IsNone(o) == o = <<>>
Val(o) == o[1]

\* dict operations: d[k] = v, and d.get(k)
EmptyDict == <<>>
Put(d, k, v) == (k :> v) @@ d
Has(d, k) == k \in DOMAIN d

SeqsUpTo(S, n) == UNION {[1..k -> S] : k \in 0..n}

RECURSIVE Concat(_)
Concat(ss) == IF ss = <<>> THEN <<>> ELSE Head(ss) \o Concat(Tail(ss))

Min(a, b) == IF a < b THEN a ELSE b

(***************************************************************************)
(* Bounds of the model                                                     *)
(***************************************************************************)
\* longest record sequence of a complete debug file
MaxRecs == 3
\* longest record sequence of a debug file cut at an arbitrary byte
MaxTruncRecs == 1


(***************************************************************************)
(* DebugFile: the Inform debug file format                                 *)
(***************************************************************************)
\* the magic number 0xDEBF
Magic == 57023
\* size of the header record's blob
HeaderLen == 64
\* '<???>' as bytes
UnknownName == <<60, 63, 63, 63, 62>>
NoError == ""

\* big-endian layouts, as struct.pack would write them
B16(n) == <<n \div 256, n % 256>>
B24(n) == <<n \div 65536, (n \div 256) % 256, n % 256>>
EncPos(t) == <<t[1]>> \o B16(t[2]) \o <<t[3]>>
Str(s) == s \o <<0>>

\* a record of the debug file before it is written out
Rec(tag, num, name, name2, p1, p2, addr, strs, pairs) ==
    [tag |-> tag, num |-> num, name |-> name, name2 |-> name2, p1 |-> p1,
     p2 |-> p2, addr |-> addr, strs |-> strs, pairs |-> pairs]

Encode(r) ==
    CASE r.tag = 1 -> <<1, r.num>> \o Str(r.name) \o Str(r.name2)
      [] r.tag = 2 -> <<2>> \o Str(r.name) \o EncPos(r.p1) \o EncPos(r.p2)
      [] r.tag = 3 -> <<3>> \o B16(r.num) \o Str(r.name) \o EncPos(r.p1) \o EncPos(r.p2)
      [] r.tag = 4 -> <<4, r.num>> \o Str(r.name)
      [] r.tag \in {5, 6, 7, 8, 12} -> <<r.tag>> \o B16(r.num) \o Str(r.name)
      [] r.tag = 9 -> <<9>> \o r.name
      [] r.tag = 10 -> <<10>> \o B16(r.num) \o B16(Len(r.pairs))
                       \o Concat([i \in 1..Len(r.pairs) |->
                                     EncPos(r.pairs[i][1]) \o B16(r.pairs[i][2])])
      [] r.tag = 11 -> <<11>> \o B16(r.num) \o EncPos(r.p1) \o B24(r.addr) \o Str(r.name)
                       \o Concat([i \in 1..Len(r.strs) |-> Str(r.strs[i])]) \o <<0>>
      [] r.tag = 13 -> <<13>> \o Concat([i \in 1..Len(r.pairs) |->
                                     Str(r.pairs[i][1]) \o B24(r.pairs[i][2])]) \o <<0>>
      [] r.tag = 14 -> <<14>> \o B16(r.num) \o EncPos(r.p1) \o B24(r.addr)
      [] OTHER -> <<r.tag>>

\* a whole file: magic, two version words, the records, the terminating zero tag
EncodeFile(magic, rs) ==
    B16(magic) \o B16(1) \o B16(630)
    \o Concat([i \in 1..Len(rs) |-> Encode(rs[i])]) \o <<0>>

\* ---- the reads --------------------------------------------------------
Avail(p, n) == p + n <= Len(stream)
U8(p) == stream[p + 1]
U16(p) == stream[p + 1] * 256 + stream[p + 2]
U24(p) == stream[p + 1] * 65536 + stream[p + 2] * 256 + stream[p + 3]

\* read_linenum: unpack('>BHB') of four bytes
read_linenum(p) == <<stream[p + 1], stream[p + 2] * 256 + stream[p + 3], stream[p + 4]>>

\* read_string: bytes up to a zero byte. At the end of the stream fl.read(1)
\* returns '' which is not '\0', and val += '' changes nothing: the loop spins.
RECURSIVE read_string_from(_, _)
read_string_from(p, val) ==
    IF p >= Len(stream) THEN [st |-> "spin", p |-> p, v |-> val]
    ELSE IF stream[p + 1] = 0 THEN [st |-> "ok", p |-> p + 1, v |-> val]
    ELSE read_string_from(p + 1, Append(val, stream[p + 1]))

read_string(p) == read_string_from(p, <<>>)

\* outcomes of a record reader: returned, raised struct.error, or spinning
Ok(s, p) == [st |-> "ok", p |-> p, self |-> s]
Fail(s) == [st |-> "struct.error", p |-> Len(stream), self |-> s]
Spin(s) == [st |-> "spin", p |-> Len(stream), self |-> s]

InformFunc(funcnum) ==
    [funcnum |-> funcnum, name |-> UnknownName, addr |-> 0, linenum |-> None,
     endaddr |-> None, endlinenum |-> None, locals |-> None, seqpts |-> None]

\* get_function without the lookup: a new entry on every reference
get_function_fresh(s, funcnum) ==
    [s EXCEPT !.functions = Put(@, funcnum, InformFunc(funcnum))]

\* get_function: the entry of funcnum, created on first reference
get_function(s, funcnum) ==
    IF Has(s.functions, funcnum) THEN s
    ELSE [s EXCEPT !.functions = Put(@, funcnum, InformFunc(funcnum))]

NewDebugFile ==
    [files |-> EmptyDict, functions |-> EmptyDict, function_names |-> EmptyDict,
     classes |-> <<>>, objects |-> EmptyDict, arrays |-> EmptyDict,
     globals |-> EmptyDict, properties |-> EmptyDict, attributes |-> EmptyDict,
     actions |-> EmptyDict, fake_actions |-> EmptyDict, map |-> EmptyDict,
     header |-> None, debugversion |-> None, informversion |-> None]

\* ---- the record readers; p is the position after the tag byte ----------
read_file_rec(s, p) ==
    IF ~Avail(p, 1) THEN Fail(s) ELSE
    LET filenum == U8(p)
        includename == read_string(p + 1)
    IN  IF includename.st # "ok" THEN Spin(s) ELSE
        LET realname == read_string(includename.p)
        IN  IF realname.st # "ok" THEN Spin(s) ELSE
            Ok([s EXCEPT !.files = Put(@, filenum, <<includename.v, realname.v>>)],
               realname.p)

read_class_rec(s, p) ==
    LET name == read_string(p)
    IN  IF name.st # "ok" THEN Spin(s) ELSE
        IF ~Avail(name.p, 4) \/ ~Avail(name.p + 4, 4) THEN Fail(s) ELSE
        Ok([s EXCEPT !.classes = Append(@, <<name.v, read_linenum(name.p),
                                             read_linenum(name.p + 4)>>)],
           name.p + 8)

read_object_rec(s, p) ==
    IF ~Avail(p, 2) THEN Fail(s) ELSE
    LET num == U16(p)
        name == read_string(p + 2)
    IN  IF name.st # "ok" THEN Spin(s) ELSE
        IF ~Avail(name.p, 4) \/ ~Avail(name.p + 4, 4) THEN Fail(s) ELSE
        Ok([s EXCEPT !.objects = Put(@, num, <<name.v, read_linenum(name.p),
                                               read_linenum(name.p + 4)>>)],
           name.p + 8)

\* a 1-byte number and a name, stored in self.arrays
read_global_rec(s, p) ==
    IF ~Avail(p, 1) THEN Fail(s) ELSE
    LET num == U8(p)
        name == read_string(p + 1)
    IN  IF name.st # "ok" THEN Spin(s) ELSE
        Ok([s EXCEPT !.arrays = Put(@, num, name.v)], name.p)

read_array_rec(s, p) ==
    IF ~Avail(p, 2) THEN Fail(s) ELSE
    LET num == U16(p)
        name == read_string(p + 2)
    IN  IF name.st # "ok" THEN Spin(s) ELSE
        Ok([s EXCEPT !.arrays = Put(@, num, name.v)], name.p)

read_attr_rec(s, p) ==
    IF ~Avail(p, 2) THEN Fail(s) ELSE
    LET num == U16(p)
        name == read_string(p + 2)
    IN  IF name.st # "ok" THEN Spin(s) ELSE
        Ok([s EXCEPT !.attributes = Put(@, num, name.v)], name.p)

read_prop_rec(s, p) ==
    IF ~Avail(p, 2) THEN Fail(s) ELSE
    LET num == U16(p)
        name == read_string(p + 2)
    IN  IF name.st # "ok" THEN Spin(s) ELSE
        Ok([s EXCEPT !.properties = Put(@, num, name.v)], name.p)

read_action_rec(s, p) ==
    IF ~Avail(p, 2) THEN Fail(s) ELSE
    LET num == U16(p)
        name == read_string(p + 2)
    IN  IF name.st # "ok" THEN Spin(s) ELSE
        Ok([s EXCEPT !.actions = Put(@, num, name.v)], name.p)

read_fake_action_rec(s, p) ==
    IF ~Avail(p, 2) THEN Fail(s) ELSE
    LET num == U16(p)
        name == read_string(p + 2)
    IN  IF name.st # "ok" THEN Spin(s) ELSE
        Ok([s EXCEPT !.fake_actions = Put(@, num, name.v)], name.p)

\* the run of local names of a routine record, ended by an empty string
RECURSIVE read_locals(_, _)
read_locals(p, locals) ==
    LET val == read_string(p)
    IN  IF val.st # "ok" THEN [st |-> "spin", p |-> val.p, v |-> locals]
        ELSE IF val.v = <<>> THEN [st |-> "ok", p |-> val.p, v |-> locals]
        ELSE read_locals(val.p, Append(locals, val.v))

read_routine_rec(s, p) ==
    IF ~Avail(p, 2) THEN Fail(s) ELSE
    LET funcnum == U16(p)
        s1 == get_function(s, funcnum)
    IN  IF ~Avail(p + 2, 4) THEN Fail(s1) ELSE
        LET s2 == [s1 EXCEPT !.functions[funcnum].linenum = Some(read_linenum(p + 2))]
        IN  IF ~Avail(p + 6, 3) THEN Fail(s2) ELSE
            LET s3 == [s2 EXCEPT !.functions[funcnum].addr = U24(p + 6)]
                name == read_string(p + 9)
            IN  IF name.st # "ok" THEN Spin(s3) ELSE
                LET s4 == [s3 EXCEPT !.functions[funcnum].name = name.v]
                    locals == read_locals(name.p, <<>>)
                IN  IF locals.st # "ok" THEN Spin(s4) ELSE
                    Ok([s4 EXCEPT !.functions[funcnum].locals = Some(locals.v)],
                       locals.p)

\* func.seqpts = [] without the test
seqpts_reset(seqpts) == Some(<<>>)

\* if (not func.seqpts): func.seqpts = []
seqpts_init(seqpts) ==
    IF IsNone(seqpts) \/ Val(seqpts) = <<>> THEN Some(<<>>) ELSE seqpts

\* for ix in range(count): the pairs still to read are appended one by one
RECURSIVE read_seqpts(_, _, _, _)
read_seqpts(s, funcnum, p, count) ==
    IF count = 0 THEN Ok(s, p)
    ELSE IF ~Avail(p, 4) \/ ~Avail(p + 4, 2) THEN Fail(s)
    ELSE read_seqpts(
            [s EXCEPT !.functions[funcnum].seqpts =
                 Some(Append(Val(@), <<read_linenum(p), U16(p + 4)>>))],
            funcnum, p + 6, count - 1)

read_lineref_rec(s, p) ==
    IF ~Avail(p, 2) THEN Fail(s) ELSE
    LET funcnum == U16(p)
        s1 == get_function(s, funcnum)
        s2 == [s1 EXCEPT !.functions[funcnum].seqpts = seqpts_init(@)]
    IN  IF ~Avail(p + 2, 2) THEN Fail(s2)
        ELSE read_seqpts(s2, funcnum, p + 4, U16(p + 2))

read_routine_end_rec(s, p) ==
    IF ~Avail(p, 2) THEN Fail(s) ELSE
    LET funcnum == U16(p)
        s1 == get_function(s, funcnum)
    IN  IF ~Avail(p + 2, 4) THEN Fail(s1) ELSE
        LET s2 == [s1 EXCEPT !.functions[funcnum].endlinenum = Some(read_linenum(p + 2))]
        IN  IF ~Avail(p + 6, 3) THEN Fail(s2)
            ELSE Ok([s2 EXCEPT !.functions[funcnum].endaddr = Some(U24(p + 6))], p + 9)

\* fl.read(64) is stored as it comes: a short read raises nothing here
read_header_rec(s, p) ==
    LET q == Min(p + HeaderLen, Len(stream))
    IN  Ok([s EXCEPT !.header = Some(SubSeq(stream, p + 1, q))], q)

RECURSIVE read_map_rec(_, _)
read_map_rec(s, p) ==
    LET name == read_string(p)
    IN  IF name.st # "ok" THEN Spin(s)
        ELSE IF name.v = <<>> THEN Ok(s, name.p)
        ELSE IF ~Avail(name.p, 3) THEN Fail(s)
        ELSE read_map_rec([s EXCEPT !.map = Put(@, name.v, U24(name.p))], name.p + 3)

\* rectable: record type -> reader
rectable ==
    (1 :> "read_file_rec") @@ (2 :> "read_class_rec") @@ (3 :> "read_object_rec")
    @@ (4 :> "read_global_rec") @@ (5 :> "read_attr_rec") @@ (6 :> "read_prop_rec")
    @@ (7 :> "read_fake_action_rec") @@ (8 :> "read_action_rec")
    @@ (9 :> "read_header_rec") @@ (10 :> "read_lineref_rec")
    @@ (11 :> "read_routine_rec") @@ (12 :> "read_array_rec")
    @@ (13 :> "read_map_rec") @@ (14 :> "read_routine_end_rec")

\* rectable.get(rectype)
recfunc(rectype) == IF rectype \in DOMAIN rectable THEN rectable[rectype] ELSE "None"


\* ---- the inputs ---------------------------------------------------------
NoPos == <<0, 0, 0>>
Routine1 == Rec(11, 1, <<77>>, <<>>, <<1, 258, 3>>, NoPos, 72, << <<97>> >>, <<>>)
Routine2 == Rec(11, 256, <<70>>, <<>>, <<2, 7, 0>>, NoPos, 65538, <<>>, <<>>)
RoutineEnd1 == Rec(14, 1, <<>>, <<>>, <<1, 300, 1>>, NoPos, 100, <<>>, <<>>)
Lineref1a == Rec(10, 1, <<>>, <<>>, NoPos, NoPos, 0, <<>>, << <<<<1, 259, 0>>, 4>> >>)
Lineref1b == Rec(10, 1, <<>>, <<>>, NoPos, NoPos, 0, <<>>,
                 << <<<<1, 260, 2>>, 258>>, <<<<1, 261, 0>>, 260>> >>)
Lineref1z == Rec(10, 1, <<>>, <<>>, NoPos, NoPos, 0, <<>>, <<>>)
Lineref2 == Rec(10, 256, <<>>, <<>>, NoPos, NoPos, 0, <<>>, << <<<<2, 8, 0>>, 1>> >>)
MapRec == Rec(13, 0, <<>>, <<>>, NoPos, NoPos, 0, <<>>, << <<<<109>>, 72>> >>)
Unknown15 == Rec(15, 0, <<>>, <<>>, NoPos, NoPos, 0, <<>>, <<>>)
Unknown99 == Rec(99, 0, <<>>, <<>>, NoPos, NoPos, 0, <<>>, <<>>)

CorePool == {Routine1, Routine2, RoutineEnd1, Lineref1a, Lineref1b, Lineref1z,
             Lineref2, MapRec, Unknown15, Unknown99}

Named(tag, num) == Rec(tag, num, <<110>>, <<>>, NoPos, NoPos, 0, <<>>, <<>>)

OtherPool ==
    { Rec(1, 1, <<105>>, <<114>>, NoPos, NoPos, 0, <<>>, <<>>),
      Rec(2, 0, <<99>>, <<>>, <<1, 2, 3>>, <<1, 4, 1>>, 0, <<>>, <<>>),
      Rec(3, 257, <<111>>, <<>>, <<1, 5, 1>>, <<1, 6, 1>>, 0, <<>>, <<>>),
      Named(4, 3), Named(5, 258), Named(6, 4), Named(7, 5), Named(8, 6), Named(12, 7),
      Rec(9, 0, [i \in 1..HeaderLen |-> i], <<>>, NoPos, NoPos, 0, <<>>, <<>>) }

BadMagic == Magic - 1

DbgInputs ==
    {[recs |-> rs, stream |-> EncodeFile(Magic, rs)] : rs \in SeqsUpTo(CorePool, MaxRecs)}
    \cup
    UNION {{[recs |-> rs, stream |-> SubSeq(EncodeFile(Magic, rs), 1, cut)] :
               cut \in 0..Len(EncodeFile(Magic, rs))} :
           rs \in SeqsUpTo(CorePool \cup OtherPool, MaxTruncRecs)}
    \cup
    {[recs |-> <<>>, stream |-> EncodeFile(BadMagic, <<>>)]}

AsmIdle == lines = <<>> /\ lineix = 0 /\ lasttup = None
ProfIdle ==
    /\ trace = <<>> /\ traceix = 0 /\ functions = None /\ source_start = None
    /\ badls = None /\ function_names = None /\ keys = <<>> /\ report = None

DbgInit ==
    /\ pc = "init"
    /\ sourcemap = None
    /\ \E in \in DbgInputs : recs = in.recs /\ stream = in.stream
    /\ pos = 0
    /\ self = NewDebugFile
    /\ debugfile = None
    /\ err = NoError
    /\ recno = 0
    /\ AsmIdle
    /\ ProfIdle

\* ---- DebugFile.__init__ ---------------------------------------------------
Raise(e, s, p) ==
    /\ pc' = "error"
    /\ err' = e
    /\ self' = s
    /\ pos' = p
    /\ UNCHANGED <<recs, stream, debugfile, recno, sourcemap, asmvars, profvars>>

\* the magic number and the two version words
read_header ==
    /\ pc = "init"
    /\ IF ~Avail(0, 2) THEN Raise("struct.error", self, Len(stream))
       ELSE IF U16(0) # Magic
            THEN Raise("ValueError: not an Inform debug file", self, 2)
       ELSE IF ~Avail(2, 2) THEN Raise("struct.error", self, Len(stream))
       ELSE IF ~Avail(4, 2)
            THEN Raise("struct.error", [self EXCEPT !.debugversion = Some(U16(2))],
                       Len(stream))
       ELSE /\ self' = [self EXCEPT !.debugversion = Some(U16(2)),
                                    !.informversion = Some(U16(4))]
            /\ pos' = 6
            /\ pc' = "records"
            /\ UNCHANGED <<recs, stream, debugfile, err, recno, sourcemap,
                           asmvars, profvars>>

AtRecord == pc = "records" /\ pos < Len(stream)
rectype == stream[pos + 1]

\* recfunc(fl) returned, raised, or never comes back
Apply(o) ==
    CASE o.st = "ok" ->
            /\ self' = o.self
            /\ pos' = o.p
            /\ recno' = recno + 1
            /\ UNCHANGED <<pc, recs, stream, debugfile, err, sourcemap, asmvars, profvars>>
      [] o.st = "struct.error" -> Raise("struct.error", o.self, o.p)
      [] o.st = "spin" ->
            /\ pc' = "read_string"
            /\ self' = o.self
            /\ pos' = o.p
            /\ UNCHANGED <<recs, stream, debugfile, err, recno, sourcemap,
                           asmvars, profvars>>

Call(h, o) == AtRecord /\ rectype # 0 /\ recfunc(rectype) = h /\ Apply(o)

call_read_file_rec == Call("read_file_rec", read_file_rec(self, pos + 1))
call_read_class_rec == Call("read_class_rec", read_class_rec(self, pos + 1))
call_read_object_rec == Call("read_object_rec", read_object_rec(self, pos + 1))
call_read_global_rec == Call("read_global_rec", read_global_rec(self, pos + 1))
call_read_attr_rec == Call("read_attr_rec", read_attr_rec(self, pos + 1))
call_read_prop_rec == Call("read_prop_rec", read_prop_rec(self, pos + 1))
call_read_fake_action_rec ==
    Call("read_fake_action_rec", read_fake_action_rec(self, pos + 1))
call_read_action_rec == Call("read_action_rec", read_action_rec(self, pos + 1))
call_read_header_rec == Call("read_header_rec", read_header_rec(self, pos + 1))
call_read_lineref_rec == Call("read_lineref_rec", read_lineref_rec(self, pos + 1))
call_read_routine_rec == Call("read_routine_rec", read_routine_rec(self, pos + 1))
call_read_array_rec == Call("read_array_rec", read_array_rec(self, pos + 1))
call_read_map_rec == Call("read_map_rec", read_map_rec(self, pos + 1))
call_read_routine_end_rec ==
    Call("read_routine_end_rec", read_routine_end_rec(self, pos + 1))

\* an unknown tag stepped over, the loop going on with the next byte
unknown_record_skipped ==
    /\ AtRecord /\ rectype # 0 /\ recfunc(rectype) = "None"
    /\ pos' = pos + 1
    /\ UNCHANGED <<pc, self, recs, stream, debugfile, err, recno, sourcemap,
                   asmvars, profvars>>

\* if (not recfunc): raise ValueError('unknown debug record type: %d')
unknown_record ==
    /\ AtRecord /\ rectype # 0 /\ recfunc(rectype) = "None"
    /\ Raise("ValueError: unknown debug record type", self, pos + 1)

\* fl.read(1) at the end of the stream gives '', which unpack('>B') rejects
tag_at_eof ==
    /\ pc = "records" /\ pos >= Len(stream)
    /\ Raise("struct.error", self, pos)

\* the ways "for func in values(): d[func.field] = func" can come out: for
\* every key one of the functions with that key is the last written
LastWritten(funcs, F, field) ==
    LET K == {funcs[f][field] : f \in F}
    IN  {pick \in [K -> F] : \A k \in K : funcs[pick[k]][field] = k}

\* the zero tag: leave the loop, fill function_names, hand the object over
end_of_records ==
    /\ AtRecord /\ rectype = 0
    /\ \E pick \in LastWritten(self.functions, DOMAIN self.functions, "name") :
          self' = [self EXCEPT !.function_names = pick]
    /\ debugfile' = Some(self')
    /\ pos' = pos + 1
    /\ pc' = "decoded"
    /\ UNCHANGED <<recs, stream, err, recno, sourcemap, asmvars, profvars>>

\* one turn of read_string's loop at the end of the stream: dat = fl.read(1)
\* is '', the test dat == '\0' fails, val += dat leaves val as it was; no
\* variable changes and the loop is entered again
read_string_at_eof ==
    /\ pc = "read_string" /\ pos >= Len(stream)
    /\ UNCHANGED vars

\* sourcemap over the functions F already visited
SourcemapsOver(funcs, F) ==
    {[a \in DOMAIN pick |-> <<Val(funcs[pick[a]].linenum)[2], funcs[pick[a]].name>>] :
        pick \in LastWritten(funcs, F, "addr")}

\* sourcemap[func.addr] = (func.linenum[1], func.name) for every decoded function;
\* func.linenum[1] raises TypeError when linenum is None
build_sourcemap ==
    /\ pc = "decoded"
    /\ LET funcs == Val(debugfile).functions
           unset == {f \in DOMAIN funcs : IsNone(funcs[f].linenum)}
       IN  IF unset = {}
           THEN /\ \E m \in SourcemapsOver(funcs, DOMAIN funcs) : sourcemap' = Some(m)
                /\ pc' = "mapped"
                /\ UNCHANGED err
           ELSE /\ \E F \in SUBSET (DOMAIN funcs \ unset) :
                      \E m \in SourcemapsOver(funcs, F) : sourcemap' = Some(m)
                /\ pc' = "error"
                /\ err' = "TypeError"
    /\ UNCHANGED <<recs, stream, pos, self, debugfile, recno, asmvars, profvars>>

DbgNext ==
    \/ read_header
    \/ call_read_file_rec
    \/ call_read_class_rec
    \/ call_read_object_rec
    \/ call_read_global_rec
    \/ call_read_attr_rec
    \/ call_read_prop_rec
    \/ call_read_fake_action_rec
    \/ call_read_action_rec
    \/ call_read_header_rec
    \/ call_read_lineref_rec
    \/ call_read_routine_rec
    \/ call_read_array_rec
    \/ call_read_map_rec
    \/ call_read_routine_end_rec
    \/ unknown_record
    \/ tag_at_eof
    \/ end_of_records
    \/ read_string_at_eof
    \/ build_sourcemap

Spec == DbgInit /\ [][DbgNext]_vars
FairSpec == DbgInit /\ [][DbgNext]_vars /\ WF_vars(DbgNext)


(***************************************************************************)
(* Claims about DebugFile                                                  *)
(***************************************************************************)
\* the stream ends before the terminating zero tag of the file it was cut from
Truncated == Len(stream) < Len(EncodeFile(Magic, recs))

\* the records decoded so far that refer to function f with the given tag
Decoded(tag, f) ==
    SelectSeq(SubSeq(recs, 1, recno), LAMBDA r : r.tag = tag /\ r.num = f)

\* the function ids referred to by the records decoded so far
Referenced ==
    {recs[i].num : i \in {j \in 1..recno : recs[j].tag \in {10, 11, 14}}}

\* the sequence points of the Line-reference records of f, in stream order
ExpectedSeqpts(f) ==
    LET lr == Decoded(10, f)
    IN  IF lr = <<>> THEN None
        ELSE Some(Concat([i \in 1..Len(lr) |-> lr[i].pairs]))

BetweenRecords == pc \in {"records", "decoded", "mapped"}

\* C1: a stream that ends before the terminating zero tag makes decoding end
\* with a fatal error and no DebugFile, wherever the stream ends.
C1_TruncatedIsFatal == Truncated => <>(pc = "error" /\ debugfile = None)

\* C2: a record tag outside 0..14 read at a record boundary ends the decoding
\* with the 'unknown debug record type' error; the record is not skipped, and
\* a failed decoding never hands a DebugFile to the caller, however many
\* records were decoded before.
C2_UnknownTagFails ==
    /\ [][(AtRecord /\ rectype \notin 0..14) =>
            /\ pc' = "error"
            /\ err' = "ValueError: unknown debug record type"
            /\ debugfile' = None
            /\ recno' = recno]_vars
    /\ [][pc = "error" => pc' = "error" /\ debugfile' = None]_vars

C2_Witness ==
    /\ pc = "error" /\ err = "ValueError: unknown debug record type"
    /\ recno = 2 /\ DOMAIN self.functions # {} /\ debugfile = None

\* C3: whatever the order of the Routine, Routine-end and Line-reference
\* records of a function id f, the table has one entry for f from the first
\* record that refers to it on, and after decoding its fields are those the
\* records carry: a value that does not depend on the order of the records
\* (Line-reference records in their relative order).
C3_OrderIndependent ==
    /\ BetweenRecords => DOMAIN self.functions = Referenced
    /\ debugfile # None =>
         \A f \in DOMAIN Val(debugfile).functions :
            (Len(Decoded(11, f)) = 1 /\ Len(Decoded(14, f)) = 1) =>
               Val(debugfile).functions[f] =
                  [funcnum |-> f,
                   name |-> Decoded(11, f)[1].name,
                   addr |-> Decoded(11, f)[1].addr,
                   linenum |-> Some(Decoded(11, f)[1].p1),
                   locals |-> Some(Decoded(11, f)[1].strs),
                   endlinenum |-> Some(Decoded(14, f)[1].p1),
                   endaddr |-> Some(Decoded(14, f)[1].addr),
                   seqpts |-> ExpectedSeqpts(f)]

C3_Witness ==
    /\ pc = "decoded"
    /\ recs = <<Lineref1a, RoutineEnd1, Routine1>>
    /\ Val(debugfile).functions[1].name = <<77>>

\* C9: the sequence-point list of a function is the concatenation, in stream
\* order, of the pairs of all its Line-reference records decoded so far; a
\* later record appends and never discards earlier pairs.
C9_SeqptsAppended ==
    BetweenRecords =>
        \A f \in DOMAIN self.functions : self.functions[f].seqpts = ExpectedSeqpts(f)

C9_Witness ==
    /\ pc = "decoded"
    /\ recs = <<Lineref1a, Lineref1z, Lineref1b>>
    /\ Len(Val(self.functions[1].seqpts)) = 3

\* C10: after a successful decode every entry of DebugFile.functions has its
\* start position set when the sourcemap construction reads its line number.
C10_StartPositionSet ==
    pc = "decoded" =>
        \A f \in DOMAIN Val(debugfile).functions :
            ~IsNone(Val(debugfile).functions[f].linenum)


(***************************************************************************)
(* parse_asm: the assembly listing                                         *)
(*                                                                         *)
(* A line is the sequence of its characters, newline included, as          *)
(* fl.readline() returns it; readline() returns the empty string at the    *)
(* end of the file.                                                        *)
(***************************************************************************)
\* longest listing
MaxLines == 4

Whitespace == {" ", "\n", "\t"}

RECURSIVE lstrip(_)
lstrip(ln) ==
    IF ln # <<>> /\ Head(ln) \in Whitespace THEN lstrip(Tail(ln)) ELSE ln

RECURSIVE rstrip(_)
rstrip(ln) ==
    IF ln # <<>> /\ ln[Len(ln)] \in Whitespace
    THEN rstrip(SubSeq(ln, 1, Len(ln) - 1)) ELSE ln

\* ln.strip()
strip(ln) == rstrip(lstrip(ln))

\* ln.split(): the maximal runs of non-whitespace characters
RECURSIVE split_from(_, _, _)
split_from(ln, cur, acc) ==
    IF ln = <<>> THEN (IF cur = <<>> THEN acc ELSE Append(acc, cur))
    ELSE IF Head(ln) \in Whitespace
         THEN split_from(Tail(ln), <<>>, IF cur = <<>> THEN acc ELSE Append(acc, cur))
         ELSE split_from(Tail(ln), Append(cur, Head(ln)), acc)

split(ln) == split_from(ln, <<>>, <<>>)

DigitValue ==
    ("0" :> 0) @@ ("1" :> 1) @@ ("2" :> 2) @@ ("3" :> 3) @@ ("4" :> 4)
    @@ ("5" :> 5) @@ ("6" :> 6) @@ ("7" :> 7) @@ ("8" :> 8) @@ ("9" :> 9)
    @@ ("a" :> 10) @@ ("b" :> 11) @@ ("c" :> 12) @@ ("d" :> 13) @@ ("e" :> 14)
    @@ ("f" :> 15)

RECURSIVE digits_value(_, _, _)
digits_value(ds, base, acc) ==
    IF ds = <<>> THEN acc
    ELSE digits_value(Tail(ds), base, acc * base + DigitValue[Head(ds)])

\* int(s, base) over tokens of digits, letters, '+' and '[': an optional sign,
\* then at least one digit of the base; None stands for ValueError
py_int(s, base) ==
    LET ds == IF s # <<>> /\ Head(s) = "+" THEN Tail(s) ELSE s
    IN  IF ds = <<>> \/ \E i \in 1..Len(ds) :
                           ds[i] \notin DOMAIN DigitValue \/ DigitValue[ds[i]] >= base
        THEN None
        ELSE Some(digits_value(ds, base, 0))

\* the try block of the loop: the tuple a function-definition line yields,
\* None for any other line and when int() raises ValueError
def_tuple(ls) ==
    IF Len(ls) >= 4 /\ ls[3] = <<"[">> /\ ls[2] # <<>> /\ Head(ls[2]) = "+"
    THEN LET linenum == py_int(ls[1], 10)
             addr == py_int(Tail(ls[2]), 16)
         IN  IF IsNone(linenum) \/ IsNone(addr) THEN None
             ELSE <<Val(linenum), ls[4], Val(addr)>>
    ELSE None

\* the try block without the reset of lasttup before it
scan_line_keep(tup, ls) == IF def_tuple(ls) # None THEN def_tuple(ls) ELSE tup

\* lasttup = None, then the try block
scan_line(tup, ls) == def_tuple(ls)

\* if (lasttup and not ls): sourcemap[addr] = (linenum, funcname)
commit(map, tup, ls) ==
    IF tup # None /\ ls = <<>> THEN Put(map, tup[3], <<tup[1], tup[2]>>) ELSE map

Blank == <<"\n">>
Spaces == <<" ", " ", "\n">>
DefMain == <<"1", "2", " ", "+", "4", "8", " ", "[", " ", "M", "\n">>
DefFoo == <<"7", " ", "+", "4", "8", " ", "[", " ", "F", "\n">>
DefBar == <<" ", "3", "0", " ", " ", "+", "1", "c", " ", "[", " ", "B", " ", "x", "\n">>
Code == <<"n", "o", "p", "\n">>
BadLinenum == <<"z", " ", "+", "4", "8", " ", "[", " ", "Q", "\n">>
NoPlus == <<"1", "2", " ", "4", "8", " ", "[", " ", "M", "\n">>

LinePool == {Blank, Spaces, DefMain, DefFoo, DefBar, Code, BadLinenum, NoPlus}

DbgIdle ==
    /\ recs = <<>> /\ stream = <<>> /\ pos = 0 /\ self = NewDebugFile
    /\ debugfile = None /\ recno = 0

AsmInit ==
    /\ pc = "parse_asm"
    /\ sourcemap = None
    /\ lines \in SeqsUpTo(LinePool, MaxLines)
    /\ lineix = 0
    /\ lasttup = None
    /\ err = NoError
    /\ DbgIdle
    /\ ProfIdle

\* sourcemap = {}; lasttup = None
parse_asm ==
    /\ pc = "parse_asm"
    /\ sourcemap' = Some(EmptyDict)
    /\ lasttup' = None
    /\ pc' = "readline"
    /\ UNCHANGED <<err, lines, lineix, dbgvars, profvars>>

\* one turn of the loop on a line that was read
asm_line ==
    /\ pc = "readline" /\ lineix < Len(lines)
    /\ LET ln == strip(lines[lineix + 1])
           lsp == split(ln)
       IN  /\ sourcemap' = Some(commit(Val(sourcemap), lasttup, lsp))
           /\ lasttup' = scan_line(lasttup, lsp)
    /\ lineix' = lineix + 1
    /\ UNCHANGED <<pc, err, lines, dbgvars, profvars>>

\* readline() returned '': break
asm_eof ==
    /\ pc = "readline" /\ lineix >= Len(lines)
    /\ pc' = "asm_done"
    /\ UNCHANGED <<sourcemap, err, lines, lineix, lasttup, dbgvars, profvars>>

AsmNext == parse_asm \/ asm_line \/ asm_eof

SpecAsm == AsmInit /\ [][AsmNext]_vars

\* ---- claims about parse_asm ---------------------------------------------
\* the tuple captured from line i of the listing, None if it is no definition
Captured(i) == def_tuple(split(strip(lines[i])))
DefLines == {i \in 1..Len(lines) : Captured(i) # None}
IsBlankLine(i) == split(strip(lines[i])) = <<>>
InSourcemap(i) ==
    /\ Has(Val(sourcemap), Captured(i)[3])
    /\ Val(sourcemap)[Captured(i)[3]] = <<Captured(i)[1], Captured(i)[2]>>

\* C6 as stated: the mapping captured from a definition line is in sourcemap
\* at the end exactly when some blank line comes after that line.
C6_CommittedIffLaterBlank ==
    pc = "asm_done" =>
        \A i \in DefLines :
            InSourcemap(i) <=> \E j \in (i + 1)..Len(lines) : IsBlankLine(j)

\* the definition lines whose next line is blank
Committed == {i \in DefLines : i < Len(lines) /\ IsBlankLine(i + 1)}
LastCommitted(a) ==
    CHOOSE i \in Committed :
        /\ Captured(i)[3] = a
        /\ \A k \in Committed : Captured(k)[3] = a => k <= i

\* C6 amended: a definition line is committed exactly when the line right
\* after it is blank; at the end sourcemap holds, for each address of a
\* committed line, the line number and name captured from the last committed
\* line with that address, and no other entry.
C6_CommittedIffNextBlank ==
    pc = "asm_done" =>
        /\ DOMAIN Val(sourcemap) = {Captured(i)[3] : i \in Committed}
        /\ \A a \in DOMAIN Val(sourcemap) :
              Val(sourcemap)[a] = <<Captured(LastCommitted(a))[1],
                                    Captured(LastCommitted(a))[2]>>

C6_Witness ==
    /\ pc = "asm_done"
    /\ lines = <<DefMain, Blank, DefBar, Code>>
    /\ Val(sourcemap) = (72 :> <<12, <<"M">> >>)


(***************************************************************************)
(* The profile: ProfileRawHandler, source_start, correlation, report       *)
(*                                                                         *)
(* A function element is the dict of its attributes; the numeric           *)
(* attributes are given by their values (times in whole units), the        *)
(* address by its hexadecimal text. The functions dict is iterated in an   *)
(* order of its own (keys), which Python 2 does not tie to the order of    *)
(* insertion.                                                              *)
(***************************************************************************)
\* longest trace drawn from the pool of function elements
MaxTrace == 3
\* dict size up to which a new key may take any place in the iteration order
MaxFreeKeys == 3
\* ls[:10]
TopN == 10

special_functions == (1 :> "glk") @@ (2 :> "streamout")

\* Function.__init__ with the self and total attributes exchanged
Function_swapped(addr, hexaddr, attrs) ==
    [addr |-> addr, hexaddr |-> hexaddr,
     name |-> IF addr \in DOMAIN special_functions
              THEN "<@" \o special_functions[addr] \o ">" ELSE "<???>",
     special |-> addr \in DOMAIN special_functions,
     linenum |-> 0,
     call_count |-> attrs.call_count,
     accel_count |-> IF IsNone(attrs.accel_count) THEN 0 ELSE Val(attrs.accel_count),
     total_ops |-> attrs.self_ops, total_time |-> attrs.self_time,
     self_ops |-> attrs.total_ops, self_time |-> attrs.total_time]

\* Function.__init__
Function(addr, hexaddr, attrs) ==
    [addr |-> addr, hexaddr |-> hexaddr,
     name |-> IF addr \in DOMAIN special_functions
              THEN "<@" \o special_functions[addr] \o ">" ELSE "<???>",
     special |-> addr \in DOMAIN special_functions,
     linenum |-> 0,
     call_count |-> attrs.call_count,
     accel_count |-> IF IsNone(attrs.accel_count) THEN 0 ELSE Val(attrs.accel_count),
     total_ops |-> attrs.total_ops, total_time |-> attrs.total_time,
     self_ops |-> attrs.self_ops, self_time |-> attrs.self_time]

Minimum(S) == CHOOSE x \in S : \A y \in S : x <= y

\* the lookup key without the offset
relative_absolute(addr, start) == addr

\* addr-source_start, the key looked up in sourcemap
relative(addr, start) == addr - start

\* "if (sourcemap)": neither None nor an empty dict
Truthy(map) == ~IsNone(map) /\ DOMAIN Val(map) # {}

\* cmp(x1.self_time, x2.self_time): ascending
cmp_ascending(x1, x2) ==
    IF x1.self_time < x2.self_time THEN -1
    ELSE IF x1.self_time > x2.self_time THEN 1 ELSE 0

\* lambda x1, x2: cmp(x2.self_time, x1.self_time)
cmp_self_time(x1, x2) ==
    IF x2.self_time < x1.self_time THEN -1
    ELSE IF x2.self_time > x1.self_time THEN 1 ELSE 0

\* list.sort(cmp) is stable: x goes behind every element that does not
\* compare greater than it
RECURSIVE insert_sorted(_, _)
insert_sorted(acc, x) ==
    IF acc = <<>> THEN <<x>>
    ELSE IF cmp_self_time(Head(acc), x) <= 0
         THEN <<Head(acc)>> \o insert_sorted(Tail(acc), x)
         ELSE <<x>> \o acc

RECURSIVE sort_from(_, _)
sort_from(todo, acc) ==
    IF todo = <<>> THEN acc ELSE sort_from(Tail(todo), insert_sorted(acc, Head(todo)))

sort(lst) == sort_from(lst, <<>>)

\* the places a new key can take in the iteration order of the dict
InsertAt(seq, k, x) == SubSeq(seq, 1, k) \o <<x>> \o SubSeq(seq, k + 1, Len(seq))
Places(seq) == IF Len(seq) < MaxFreeKeys THEN 0..Len(seq) ELSE {0, Len(seq)}

\* ---- the inputs ---------------------------------------------------------
El(hexaddr, call_count, accel_count, total_ops, total_time, self_ops, self_time) ==
    [addr |-> hexaddr, call_count |-> call_count, accel_count |-> accel_count,
     total_ops |-> total_ops, total_time |-> total_time,
     self_ops |-> self_ops, self_time |-> self_time]

Glk == El(<<"1">>, 4, None, 9, 9, 9, 9)
Streamout == El(<<"2">>, 2, None, 1, 1, 1, 1)
Main3c == El(<<"3", "c">>, 1, None, 80, 8, 50, 5)
Func40 == El(<<"4", "0">>, 3, Some(1), 50, 5, 50, 5)
Func4c == El(<<"4", "c">>, 2, None, 30, 3, 30, 3)
Func3cAgain == El(<<"3", "c">>, 2, None, 40, 4, 30, 3)
Malformed84 == El(<<"8", "4">>, 1, None, 20, 2, 30, 3)

ElPool == {Glk, Streamout, Main3c, Func40, Func4c, Func3cAgain, Malformed84}

LongTrace ==
    <<El(<<"5", "0">>, 1, None, 5, 5, 4, 4),
      El(<<"5", "4">>, 1, None, 3, 3, 2, 2),
      El(<<"5", "8">>, 1, None, 5, 5, 4, 4),
      El(<<"5", "c">>, 1, None, 2, 2, 1, 1),
      El(<<"6", "0">>, 1, None, 3, 3, 2, 2),
      El(<<"6", "4">>, 1, None, 5, 5, 4, 4),
      El(<<"6", "8">>, 1, None, 4, 4, 3, 3),
      El(<<"6", "c">>, 1, None, 2, 2, 1, 1),
      El(<<"7", "0">>, 1, None, 3, 3, 2, 2),
      El(<<"7", "4">>, 1, None, 4, 4, 3, 3),
      El(<<"7", "8">>, 1, None, 2, 2, 1, 1)>>

SourcemapPool ==
    { None,
      Some(EmptyDict),
      Some((0 :> <<0, "Main__">>) @@ (16 :> <<12, "Foo">>)),
      Some((4 :> <<7, "Bar">>) @@ (12 :> <<9, "Foo">>) @@ (100 :> <<3, "Never">>)) }

ProfInit ==
    /\ pc = "parse"
    /\ sourcemap = None
    /\ err = NoError
    /\ trace \in SeqsUpTo(ElPool, MaxTrace) \cup {LongTrace}
    /\ traceix = 0
    /\ functions = None
    /\ source_start = None
    /\ badls = None
    /\ function_names = None
    /\ keys = <<>>
    /\ report = None
    /\ DbgIdle
    /\ AsmIdle

\* startElement('profile'): functions = {}
startElement_profile ==
    /\ pc = "parse"
    /\ functions' = Some(EmptyDict)
    /\ keys' = <<>>
    /\ pc' = "xml"
    /\ UNCHANGED <<sourcemap, err, trace, traceix, source_start, badls,
                   function_names, report, dbgvars, asmvars>>

\* startElement('function'): functions[addr] = Function(addr, hexaddr, attrs)
startElement_function ==
    /\ pc = "xml" /\ traceix < Len(trace)
    /\ LET attrs == trace[traceix + 1]
           hexaddr == attrs.addr
           addr == Val(py_int(hexaddr, 16))
       IN  /\ functions' = Some(Put(Val(functions), addr, Function(addr, hexaddr, attrs)))
           /\ IF Has(Val(functions), addr) THEN keys' = keys
              ELSE \E k \in Places(keys) : keys' = InsertAt(keys, k, addr)
    /\ traceix' = traceix + 1
    /\ UNCHANGED <<pc, sourcemap, err, trace, source_start, badls,
                   function_names, report, dbgvars, asmvars>>

\* source_start = min([func.addr for func in functions.values() if not func.special]);
\* min() of an empty list raises ValueError
find_source_start ==
    /\ pc = "xml" /\ traceix >= Len(trace)
    /\ LET F == Val(functions)
           addrs == {F[a].addr : a \in {b \in DOMAIN F : ~F[b].special}}
       IN  IF addrs = {}
           THEN /\ pc' = "error"
                /\ err' = "ValueError: min() arg is an empty sequence"
                /\ UNCHANGED source_start
           ELSE /\ source_start' = Some(Minimum(addrs))
                /\ pc' = "load"
                /\ UNCHANGED err
    /\ UNCHANGED <<sourcemap, trace, traceix, functions, badls, function_names,
                   keys, report, dbgvars, asmvars>>

\* if (game_asm): sourcemap comes from the debug file or from the listing
load_sourcemap ==
    /\ pc = "load"
    /\ sourcemap' \in SourcemapPool
    /\ pc' = "correlate"
    /\ UNCHANGED <<err, profvars, dbgvars, asmvars>>

\* function_names[func.name] = func for func in functions.values(): the last
\* function of each name in iteration order
LastNamed(F, order) ==
    [n \in {F[a].name : a \in DOMAIN F} |->
        order[CHOOSE i \in 1..Len(order) :
                 /\ F[order[i]].name = n
                 /\ \A j \in 1..Len(order) : F[order[j]].name = n => j <= i]]

\* the "if (sourcemap):" block
correlate ==
    /\ pc = "correlate"
    /\ IF Truthy(sourcemap)
       THEN LET F == Val(functions)
                map == Val(sourcemap)
                start == Val(source_start)
                found(a) == ~F[a].special /\ Has(map, relative(a, start))
                G == [a \in DOMAIN F |->
                        IF found(a)
                        THEN [F[a] EXCEPT !.name = map[relative(a, start)][2],
                                          !.linenum = map[relative(a, start)][1]]
                        ELSE F[a]]
            IN  /\ functions' = Some(G)
                /\ badls' = Some(SelectSeq(keys, LAMBDA a : ~F[a].special /\ ~found(a)))
                /\ function_names' = Some(LastNamed(G, keys))
       ELSE UNCHANGED <<functions, badls, function_names>>
    /\ pc' = "report"
    /\ UNCHANGED <<sourcemap, err, trace, traceix, source_start, keys, report,
                   dbgvars, asmvars>>

\* ls = functions.values(); ls.sort(...); for func in ls[:10]: func.dump()
report_top ==
    /\ pc = "report"
    /\ LET F == Val(functions)
           lst == sort([i \in 1..Len(keys) |-> F[keys[i]]])
       IN  report' = Some(SubSeq(lst, 1, Min(TopN, Len(lst))))
    /\ pc' = "done"
    /\ UNCHANGED <<sourcemap, err, trace, traceix, functions, source_start, badls,
                   function_names, keys, dbgvars, asmvars>>

ProfNext ==
    \/ startElement_profile
    \/ startElement_function
    \/ find_source_start
    \/ load_sourcemap
    \/ correlate
    \/ report_top

SpecProfile == ProfInit /\ [][ProfNext]_vars


(***************************************************************************)
(* Claims about the profile                                                *)
(***************************************************************************)
Correlated == pc \in {"report", "done"}
NonSpecial == {a \in DOMAIN Val(functions) : a \notin DOMAIN special_functions}
Occurrences(seq, x) == Cardinality({i \in 1..Len(seq) : seq[i] = x})

\* a non-special record resolved against the entry of its relative address
Resolved(a) ==
    /\ Has(Val(sourcemap), a - Val(source_start))
    /\ Val(functions)[a].name = Val(sourcemap)[a - Val(source_start)][2]
    /\ Val(functions)[a].linenum = Val(sourcemap)[a - Val(source_start)][1]

\* a non-special record left unknown and counted once in the unresolved list
Unresolved(a) ==
    /\ ~Has(Val(sourcemap), a - Val(source_start))
    /\ Val(functions)[a].name = "<???>"
    /\ Val(functions)[a].linenum = 0
    /\ ~IsNone(badls)
    /\ Occurrences(Val(badls), a) = 1

EveryRecordSettled ==
    /\ \A a \in NonSpecial :
          /\ Resolved(a) \/ Unresolved(a)
          /\ Resolved(a) => IsNone(badls) \/ Occurrences(Val(badls), a) = 0
    /\ ~IsNone(badls)
    /\ Cardinality({a \in NonSpecial : Resolved(a)}) + Len(Val(badls))
          = Cardinality(NonSpecial)

\* C4 as stated: for every symbol map supplied, after the correlation step
\* each non-special record is resolved to its entry or is left unknown and
\* counted as unresolved, and the two counts add up to the non-special records.
C4_EverySuppliedMap ==
    (Correlated /\ ~IsNone(sourcemap)) => EveryRecordSettled

\* C4 amended: the same for every symbol map that is not empty; with an empty
\* map, as with none, the correlation is skipped: every record keeps '<???>'
\* and line 0 and no unresolved list is made.
C4_EveryNonEmptyMap ==
    Correlated =>
        IF Truthy(sourcemap) THEN EveryRecordSettled
        ELSE /\ IsNone(badls)
             /\ \A a \in NonSpecial :
                   Val(functions)[a].name = "<???>" /\ Val(functions)[a].linenum = 0

\* the symbol-table entry at relative address 0x10 names the record at
\* source_start + 0x10, and another record is counted as unresolved
C4_Witness ==
    /\ pc = "report"
    /\ trace = <<Main3c, Func4c, Func40>>
    /\ Val(functions)[76].name = "Foo" /\ Val(functions)[76].linenum = 12
    /\ Val(functions)[60].name = "Main__"
    /\ Val(badls) = <<64>>

\* position of address a in a sequence of addresses
IndexIn(seq, a) == CHOOSE i \in 1..Len(seq) : seq[i] = a

\* the addresses of the trace in order of discovery
RECURSIVE Discovered(_, _)
Discovered(i, acc) ==
    IF i > Len(trace) THEN acc
    ELSE LET a == Val(py_int(trace[i].addr, 16))
         IN  Discovered(i + 1, IF \E j \in 1..Len(acc) : acc[j] = a
                               THEN acc ELSE Append(acc, a))

\* the report is the first TopN records by descending self_time, records of
\* equal self_time standing in the given order
RankedBy(order) ==
    LET F == Val(functions)
        r == Val(report)
        Before(x, y) ==
            \/ x.self_time > y.self_time
            \/ x.self_time = y.self_time
               /\ IndexIn(order, x.addr) < IndexIn(order, y.addr)
    IN  /\ Len(r) = Min(TopN, Cardinality(DOMAIN F))
        /\ \A i \in 1..Len(r) : r[i].addr \in DOMAIN F /\ r[i] = F[r[i].addr]
        /\ \A i, j \in 1..Len(r) : i < j => Before(r[i], r[j])
        /\ \A a \in DOMAIN F \ {r[i].addr : i \in 1..Len(r)} :
              \A i \in 1..Len(r) : Before(r[i], F[a])

\* C5 as stated: the report lists the first 10 records by descending
\* self_time, records of equal self_time in the order of their discovery
\* in the trace.
C5_TiesInDiscoveryOrder == pc = "done" => RankedBy(Discovered(1, <<>>))

\* C5 amended: the report lists the first 10 records by descending self_time,
\* records of equal self_time in the order in which the functions dict yields
\* them, which need not be the order of discovery.
C5_TiesInDictOrder == pc = "done" => RankedBy(keys)

C5_Witness ==
    /\ pc = "done"
    /\ trace = LongTrace
    /\ Len(Val(report)) = TopN
    /\ keys # Discovered(1, <<>>)
    /\ Val(report)[1].self_time = Val(report)[2].self_time
    /\ IndexIn(Discovered(1, <<>>), Val(report)[1].addr)
          > IndexIn(Discovered(1, <<>>), Val(report)[2].addr)

\* C7: source_start is the minimum address over the non-sentinel records and
\* is defined for every trace, one with only sentinel records or with no
\* function element included.
C7_SourceStartDefined ==
    pc \notin {"parse", "xml"} =>
        /\ ~IsNone(source_start)
        /\ NonSpecial # {} =>
              /\ Val(source_start) \in NonSpecial
              /\ \A a \in NonSpecial : Val(source_start) <= a

\* C8 as stated: every cost record held satisfies self_time <= total_time and
\* self_ops <= total_ops; an element that violates this is not accepted.
C8_SelfWithinTotal ==
    ~IsNone(functions) =>
        \A a \in DOMAIN Val(functions) :
            /\ Val(functions)[a].self_time <= Val(functions)[a].total_time
            /\ Val(functions)[a].self_ops <= Val(functions)[a].total_ops

\* C8 amended: no element is validated or rejected. Every address handled
\* has a cost record, and the record holds the self and total values of the
\* last element with that address as they are, so self <= total holds of a
\* record exactly when it holds of that element.
C8_RecordsAsInTrace ==
    ~IsNone(functions) =>
        LET F == Val(functions)
            addrs == [i \in 1..traceix |-> Val(py_int(trace[i].addr, 16))]
            last(a) == CHOOSE i \in 1..traceix :
                          addrs[i] = a /\ \A j \in (i + 1)..traceix : addrs[j] # a
        IN  /\ DOMAIN F = {addrs[i] : i \in 1..traceix}
            /\ \A a \in DOMAIN F :
                  LET e == trace[last(a)]
                  IN  /\ F[a].self_time = e.self_time
                      /\ F[a].total_time = e.total_time
                      /\ F[a].self_ops = e.self_ops
                      /\ F[a].total_ops = e.total_ops
                      /\ (F[a].self_time <= F[a].total_time)
                            <=> (e.self_time <= e.total_time)

C8_Witness ==
    /\ pc = "done"
    /\ Has(Val(functions), 132)
    /\ Val(functions)[132].self_time > Val(functions)[132].total_time
    /\ Val(functions)[132].self_ops > Val(functions)[132].total_ops

====
